---- MODULE Spec2Model ----
(***************************************************************************)
(* Model of Figure4/process_personalization_truthset_graph_vcf.py: a       *)
(* one-pass transformation of the lines of a VCF into a table of allele    *)
(* lengths and pairwise genotype comparison codes.                         *)
(*                                                                         *)
(* Text is modelled as a sequence of one-character strings, so that        *)
(* strip, startswith, split, join, len and str are computed character by   *)
(* character as Python computes them.  List positions keep Python's        *)
(* 0-based numbering; At(parts, i) reads parts[i].                         *)
(***************************************************************************)
EXTENDS Integers, Sequences, FiniteSets, TLC

VARIABLES
    input,           \* the lines the input iterator yields, in order
    pos,             \* how many lines the iterator has yielded so far
    out,             \* the rows handed to writer.writerow, in order
    sample_indices,  \* None, or the list of sample column positions
    status,          \* "start", "running", "done" or "failed"
    error,           \* the exception that ended the run, or "none"
    nChecks,         \* how often the sample-count test of line 56 ran
    gt1, gt2,        \* arguments of a call of compare_genotypes
    ret, ret_swapped \* its result, and the result with the arguments swapped

vars == <<input, pos, out, sample_indices, status, error, nChecks,
          gt1, gt2, ret, ret_swapped>>

mainVars == <<input, pos, out, sample_indices, status, error, nChecks>>
cmpVars == <<gt1, gt2, ret, ret_swapped>>

(***************************************************************************)
(* Bounds of the model.                                                    *)
(***************************************************************************)
MaxLines == 3

(***************************************************************************)
(* Characters and Python's string operations.                              *)
(***************************************************************************)
TAB == "\t"
NL == "\n"
SP == " "

Whitespace == {SP, TAB, NL, "\r"}

RECURSIVE lstrip(_)
lstrip(s) ==
    IF s = <<>> THEN s
    ELSE IF Head(s) \in Whitespace THEN lstrip(Tail(s)) ELSE s

RECURSIVE rstrip(_)
rstrip(s) ==
    IF s = <<>> THEN s
    ELSE IF s[Len(s)] \in Whitespace THEN rstrip(SubSeq(s, 1, Len(s) - 1)) ELSE s

strip(s) == rstrip(lstrip(s))

startswith(s, prefix) ==
    /\ Len(s) >= Len(prefix)
    /\ SubSeq(s, 1, Len(prefix)) = prefix

\* s.split(sep) for a one-character separator: always at least one piece.
RECURSIVE split(_, _)
split(s, sep) ==
    IF \A i \in 1..Len(s) : s[i] # sep THEN <<s>>
    ELSE LET i == CHOOSE k \in 1..Len(s) :
                      /\ s[k] = sep
                      /\ \A j \in 1..(k - 1) : s[j] # sep
         IN  <<SubSeq(s, 1, i - 1)>> \o split(SubSeq(s, i + 1, Len(s)), sep)

\* sep.join(pieces)
RECURSIVE join(_, _)
join(sep, pieces) ==
    IF pieces = <<>> THEN <<>>
    ELSE IF Len(pieces) = 1 THEN pieces[1]
    ELSE pieces[1] \o sep \o join(sep, Tail(pieces))

Digit(d) == <<"0", "1", "2", "3", "4", "5", "6", "7", "8", "9">>[d + 1]

\* str(n) for an int: decimal digits, a leading '-' for a negative number.
RECURSIVE strNat(_)
strNat(n) == IF n < 10 THEN <<Digit(n)>> ELSE strNat(n \div 10) \o <<Digit(n % 10)>>

str(n) == IF n < 0 THEN <<"-">> \o strNat(0 - n) ELSE strNat(n)

\* max(list) of a non-empty list of ints
RECURSIVE max(_)
max(l) ==
    IF Len(l) = 1 THEN l[1]
    ELSE LET m == max(Tail(l)) IN IF l[1] >= m THEN l[1] ELSE m

\* list(range(a, b))
range(a, b) == [i \in 1..(IF b > a THEN b - a ELSE 0) |-> a + i - 1]

\* l[i] with Python's 0-based position
At(l, i) == l[i + 1]

\* the value None of sample_indices: no list of positions
None == << -1 >>

(***************************************************************************)
(* compare_genotypes                                                       *)
(***************************************************************************)
Dot == <<".">>

\* a variant that tests equality before the missing marker
compare_equality_first(a, b) ==
    IF a = b THEN <<"1">>
    ELSE IF a = Dot \/ b = Dot THEN <<"2">>
    ELSE <<"3">>

\* a variant that looks for the missing marker in the first argument only
compare_first_missing(a, b) ==
    IF a = Dot /\ b = Dot THEN <<"0">>
    ELSE IF a = Dot THEN <<"2">>
    ELSE IF a = b THEN <<"1">>
    ELSE <<"3">>

compare_genotypes(a, b) ==
    IF a = Dot /\ b = Dot THEN <<"0">>
    ELSE IF a = Dot \/ b = Dot THEN <<"2">>
    ELSE IF a = b THEN <<"1">>
    ELSE <<"3">>

(***************************************************************************)
(* main: the output header and the tests of the line loop.                 *)
(***************************************************************************)
out_header ==
    << <<"C", "H", "R", "O", "M">>,
       <<"P", "O", "S">>,
       <<"R", "E", "F", ".", "L", "e", "n", "g", "t", "h">>,
       <<"A", "L", "T", ".", "L", "e", "n", "g", "t", "h">>,
       <<"D", "E", "L", "T", "A", ".", "L", "e", "n", "g", "t", "h">>,
       <<"h", "1", "_", "h", "2">>,
       <<"h", "1", "_", "h", "3">>,
       <<"h", "1", "_", "h", "4">>,
       <<"h", "2", "_", "h", "3">>,
       <<"h", "2", "_", "h", "4">>,
       <<"h", "3", "_", "h", "4">> >>

\* a variant that starts with the usual four positions instead of None
InitialSampleIndices_default == <<9, 10, 11, 12>>

InitialSampleIndices == None

\* a variant that removes the line end only
Stripped_newline_only(raw) ==
    IF raw # <<>> /\ raw[Len(raw)] = NL THEN SubSeq(raw, 1, Len(raw) - 1) ELSE raw

Stripped(raw) == strip(raw)

IsEmptyLine(line) == line = <<>>

IsMetaLine(line) == startswith(line, <<"#", "#">>)

IsHeaderLine(line) == startswith(line, <<"#", "C", "H", "R", "O", "M">>)

SampleColumns(parts) == range(9, Len(parts))

\* a variant that accepts more than four sample columns
SampleCountOk_at_least(si) == Len(si) >= 4

SampleCountOk(si) == Len(si) = 4

(***************************************************************************)
(* main: one variant line.                                                 *)
(***************************************************************************)
ref_len(parts) == Len(At(parts, 3))

alt_alleles(parts) == split(At(parts, 4), ",")

alt_lengths(parts) ==
    [i \in 1..Len(alt_alleles(parts)) |-> Len(alt_alleles(parts)[i])]

alt_lengths_str(parts) ==
    join(<<",">>, [i \in 1..Len(alt_lengths(parts)) |-> str(alt_lengths(parts)[i])])

\* a variant that takes the first alternate allele instead of the longest
max_alt_length_first(parts) == alt_lengths(parts)[1]

max_alt_length(parts) == max(alt_lengths(parts))

delta_len(parts) == max_alt_length(parts) - ref_len(parts)

\* a variant that keeps the whole sample field
haplotypes_whole_field(parts, si) ==
    [k \in 1..Len(si) |-> At(parts, si[k])]

haplotypes(parts, si) ==
    [k \in 1..Len(si) |-> At(split(At(parts, si[k]), ":"), 0)]

Comparisons(h) ==
    << compare_genotypes(h[1], h[2]), compare_genotypes(h[1], h[3]),
       compare_genotypes(h[1], h[4]), compare_genotypes(h[2], h[3]),
       compare_genotypes(h[2], h[4]), compare_genotypes(h[3], h[4]) >>

\* the list handed to writer.writerow; the writer turns the two ints into text
VariantRow(parts, si) ==
    << At(parts, 0), At(parts, 1), str(ref_len(parts)), alt_lengths_str(parts),
       str(delta_len(parts)) >> \o Comparisons(haplotypes(parts, si))

\* the exception a variant line raises, "none" when it raises none
VariantError(parts, si) ==
    IF Len(parts) < 5 THEN "IndexError"
    ELSE IF si = None THEN "TypeError"
    ELSE IF \E k \in 1..Len(si) : si[k] >= Len(parts) THEN "IndexError"
    ELSE IF Len(si) # 4 THEN "ValueError"
    ELSE "none"

(***************************************************************************)
(* The input: the lines the iterator over infile may yield.                *)
(***************************************************************************)
FixedColumns ==
    << <<"#", "C", "H", "R", "O", "M">>,
       <<"P", "O", "S">>,
       <<"I", "D">>,
       <<"R", "E", "F">>,
       <<"A", "L", "T">>,
       <<"Q", "U", "A", "L">>,
       <<"F", "I", "L", "T", "E", "R">>,
       <<"I", "N", "F", "O">>,
       <<"F", "O", "R", "M", "A", "T">> >>

\* a line of tab-separated fields, with its line end
Line(fields) == join(<<TAB>>, fields) \o <<NL>>

\* a '#CHROM' line with n sample columns
HeaderLine(n) == Line(FixedColumns \o [i \in 1..n |-> <<"S", Digit(i)>>])

Variant1 ==
    << <<"c", "1">>,
       <<"5">>,
       <<".">>,
       <<"A">>,
       <<"A", ",", "T", "T">>,
       <<".">>,
       <<".">>,
       <<".">>,
       <<"G", "T">>,
       <<"0", "/", "0">>,
       <<"0", "/", "1", ":", "7">>,
       <<".">>,
       <<"0", "/", "0">> >>

Variant2 ==
    << <<"c", "1">>,
       <<"9">>,
       <<".">>,
       <<"A">>,
       <<"A", "A", "A">>,
       <<".">>,
       <<".">>,
       <<".">>,
       <<"G", "T">>,
       <<"0", "/", "1">>,
       <<"1", "/", "0">>,
       <<"0", "/", "1", ":", "3", ":", "x">>,
       <<"0", "/", "1">> >>

Variant3 ==
    << <<"c", "2">>,
       <<"1", "2">>,
       <<".">>,
       <<"A", "A", "A">>,
       <<"A">>,
       <<".">>,
       <<".">>,
       <<".">>,
       <<"G", "T">>,
       <<".">>,
       <<".", ":", "9">>,
       <<"1">>,
       <<"1">> >>

Variant4 ==
    << <<"c", "2">>,
       <<"3", "0">>,
       <<".">>,
       <<"A", "T">>,
       <<"C", "G", ",", "T">>,
       <<".">>,
       <<".">>,
       <<".">>,
       <<"G", "T">>,
       <<"0">>,
       <<"1">>,
       <<".">>,
       <<"0", "|", "1">> >>

Variant5 ==
    << <<"c", "3">>,
       <<"4", "4">>,
       <<".">>,
       <<"A">>,
       <<"A", "C", "G", "T", "A", "C", "G", "T", "A", "C", "G", "T", ",", "C">>,
       <<".">>,
       <<".">>,
       <<".">>,
       <<"G", "T">>,
       <<"1">>,
       <<"1">>,
       <<"1">>,
       <<"1">>,
       <<"1">> >>

BlankLines == { <<NL>>, <<SP, TAB, NL>> }

MetaLines == { <<"#", "#", "m", NL>>, <<SP, "#", "#", "m", NL>> }

HeaderLines == { HeaderLine(3), HeaderLine(4), HeaderLine(5) }

VariantLines == { Line(Variant1), Line(Variant2), Line(Variant3), Line(Variant4),
                  Line(Variant5) }

\* lines with too few fields: 3 fields, 10 fields, 13 fields of which the last
\* is empty, and a '#' line that is neither '##' nor '#CHROM'
TruncatedLines ==
    { Line(SubSeq(Variant1, 1, 3)), Line(SubSeq(Variant2, 1, 10)),
      Line(SubSeq(Variant3, 1, 12) \o << <<>> >>), <<"#", "x", NL>> }

Lines == BlankLines \cup MetaLines \cup HeaderLines \cup VariantLines \cup TruncatedLines

Inputs == UNION { [1..n -> Lines] : n \in 0..MaxLines }

(***************************************************************************)
(* main: the state after the files are opened, and the steps of the run.   *)
(***************************************************************************)
NoResult == <<>>

Init ==
    /\ input \in Inputs
    /\ pos = 0
    /\ out = <<>>
    /\ sample_indices = None
    /\ status = "start"
    /\ error = "none"
    /\ nChecks = 0
    /\ gt1 = <<>> /\ gt2 = <<>> /\ ret = NoResult /\ ret_swapped = NoResult

\* lines 31-39: the header row is written and sample_indices is initialised
Start ==
    /\ status = "start"
    /\ out' = Append(out, out_header)
    /\ sample_indices' = InitialSampleIndices
    /\ status' = "running"
    /\ UNCHANGED <<input, pos, error, nChecks, cmpVars>>

\* the loop has a next line: the iterator yields it and it is stripped
HasLine == status = "running" /\ pos < Len(input)

cur_line == Stripped(input[pos + 1])

cur_parts == split(cur_line, TAB)

\* lines 43-44
SkipEmpty ==
    /\ HasLine
    /\ IsEmptyLine(cur_line)
    /\ pos' = pos + 1
    /\ UNCHANGED <<input, out, sample_indices, status, error, nChecks, cmpVars>>

\* lines 47-48
SkipMeta ==
    /\ HasLine
    /\ ~IsEmptyLine(cur_line)
    /\ IsMetaLine(cur_line)
    /\ pos' = pos + 1
    /\ UNCHANGED <<input, out, sample_indices, status, error, nChecks, cmpVars>>

IsHeaderStep ==
    /\ HasLine
    /\ ~IsEmptyLine(cur_line)
    /\ ~IsMetaLine(cur_line)
    /\ IsHeaderLine(cur_line)

\* a variant that detects the sample columns at the first header line only
HeaderOk_once ==
    /\ IsHeaderStep
    /\ SampleCountOk(SampleColumns(cur_parts))
    /\ IF sample_indices = None
       THEN /\ sample_indices' = SampleColumns(cur_parts)
            /\ nChecks' = nChecks + 1
       ELSE UNCHANGED <<sample_indices, nChecks>>
    /\ pos' = pos + 1
    /\ UNCHANGED <<input, out, status, error, cmpVars>>

\* lines 51-58, the count is 4
HeaderOk ==
    /\ IsHeaderStep
    /\ SampleCountOk(SampleColumns(cur_parts))
    /\ sample_indices' = SampleColumns(cur_parts)
    /\ nChecks' = nChecks + 1
    /\ pos' = pos + 1
    /\ UNCHANGED <<input, out, status, error, cmpVars>>

\* lines 51-57, the count is not 4: ValueError leaves main
HeaderFail ==
    /\ IsHeaderStep
    /\ ~SampleCountOk(SampleColumns(cur_parts))
    /\ sample_indices' = SampleColumns(cur_parts)
    /\ nChecks' = nChecks + 1
    /\ pos' = pos + 1
    /\ status' = "failed"
    /\ error' = "ValueError"
    /\ UNCHANGED <<input, out, cmpVars>>

IsVariantStep ==
    /\ HasLine
    /\ ~IsEmptyLine(cur_line)
    /\ ~IsMetaLine(cur_line)
    /\ ~IsHeaderLine(cur_line)

\* a variant that writes the header row again before every row
VariantOk_rewrites_header ==
    /\ IsVariantStep
    /\ VariantError(cur_parts, sample_indices) = "none"
    /\ out' = out \o <<out_header, VariantRow(cur_parts, sample_indices)>>
    /\ pos' = pos + 1
    /\ UNCHANGED <<input, sample_indices, status, error, nChecks, cmpVars>>

\* lines 61-99, no exception: one row is written
VariantOk ==
    /\ IsVariantStep
    /\ VariantError(cur_parts, sample_indices) = "none"
    /\ out' = Append(out, VariantRow(cur_parts, sample_indices))
    /\ pos' = pos + 1
    /\ UNCHANGED <<input, sample_indices, status, error, nChecks, cmpVars>>

\* a variant that drops a line it cannot parse and goes on
VariantFail_skip ==
    /\ IsVariantStep
    /\ VariantError(cur_parts, sample_indices) # "none"
    /\ pos' = pos + 1
    /\ UNCHANGED <<input, out, sample_indices, status, error, nChecks, cmpVars>>

\* lines 61-85, an exception leaves main before writerow
VariantFail ==
    /\ IsVariantStep
    /\ VariantError(cur_parts, sample_indices) # "none"
    /\ pos' = pos + 1
    /\ status' = "failed"
    /\ error' = VariantError(cur_parts, sample_indices)
    /\ UNCHANGED <<input, out, sample_indices, nChecks, cmpVars>>

\* line 41: the iterator is exhausted, the files are closed
Finish ==
    /\ status = "running"
    /\ pos = Len(input)
    /\ status' = "done"
    /\ UNCHANGED <<input, pos, out, sample_indices, error, nChecks, cmpVars>>

Next ==
    \/ Start
    \/ SkipEmpty
    \/ SkipMeta
    \/ HeaderOk
    \/ HeaderFail
    \/ VariantOk
    \/ VariantFail
    \/ Finish

Spec == Init /\ [][Next]_vars

(***************************************************************************)
(* Calls of compare_genotypes on pairs of genotype tokens.                 *)
(***************************************************************************)
Tokens ==
    { Dot, <<"0", "/", "1">>, <<"1", "/", "0">>, <<"1", "/", "1">>,
      <<"0", "/", "0">>, <<"0">>, <<"1">>, <<>>, <<".", "/", ".">>,
      <<".", ".">>, <<"0", "|", "1">> }

InitCmp ==
    /\ gt1 \in Tokens
    /\ gt2 \in Tokens
    /\ ret = NoResult
    /\ ret_swapped = NoResult
    /\ input = <<>> /\ pos = 0 /\ out = <<>> /\ sample_indices = None
    /\ status = "start" /\ error = "none" /\ nChecks = 0

CallCompare ==
    /\ ret = NoResult
    /\ ret' = compare_genotypes(gt1, gt2)
    /\ UNCHANGED <<mainVars, gt1, gt2, ret_swapped>>

CallSwapped ==
    /\ ret_swapped = NoResult
    /\ ret_swapped' = compare_genotypes(gt2, gt1)
    /\ UNCHANGED <<mainVars, gt1, gt2, ret>>

NextCmp == CallCompare \/ CallSwapped

SpecCmp == InitCmp /\ [][NextCmp]_vars

(***************************************************************************)
(* Properties.  The definitions below read the input independently of the  *)
(* tests main makes: input[i] is the i-th line, and pos lines have been    *)
(* taken by the loop so far (the last of them the one a failed run         *)
(* stopped at).                                                            *)
(***************************************************************************)
Trimmed(i) == strip(input[i])

Fields(i) == split(Trimmed(i), TAB)

BlankAt(i) == \A k \in 1..Len(input[i]) : input[i][k] \in {SP, TAB, NL}

MetaAt(i) ==
    /\ ~BlankAt(i)
    /\ Len(Trimmed(i)) >= 2
    /\ Trimmed(i)[1] = "#"
    /\ Trimmed(i)[2] = "#"

HeaderAt(i) ==
    /\ Len(Trimmed(i)) >= 6
    /\ SubSeq(Trimmed(i), 1, 6) = <<"#", "C", "H", "R", "O", "M">>

DataAt(i) == ~BlankAt(i) /\ ~MetaAt(i) /\ ~HeaderAt(i)

\* the number of columns at 0-based positions 9 and beyond
SampleCount(i) == Cardinality({c \in 0..(Len(Fields(i)) - 1) : c >= 9})

NoHeaderBefore(i) == \A j \in 1..(i - 1) : ~HeaderAt(j)

\* the positions of the data lines among the first n lines, in input order
RECURSIVE DataUpTo(_)
DataUpTo(n) ==
    IF n = 0 THEN <<>>
    ELSE IF DataAt(n) THEN Append(DataUpTo(n - 1), n) ELSE DataUpTo(n - 1)

\* the loop is about to take line pos + 1
Taking == status = "running" /\ pos < Len(input)

HeaderLiteral ==
    << <<"C", "H", "R", "O", "M">>,
       <<"P", "O", "S">>,
       <<"R", "E", "F", ".", "L", "e", "n", "g", "t", "h">>,
       <<"A", "L", "T", ".", "L", "e", "n", "g", "t", "h">>,
       <<"D", "E", "L", "T", "A", ".", "L", "e", "n", "g", "t", "h">>,
       <<"h", "1", "_", "h", "2">>,
       <<"h", "1", "_", "h", "3">>,
       <<"h", "1", "_", "h", "4">>,
       <<"h", "2", "_", "h", "3">>,
       <<"h", "2", "_", "h", "4">>,
       <<"h", "3", "_", "h", "4">> >>

Codes == { <<"0">>, <<"1">>, <<"2">>, <<"3">> }

GT01 == <<"0", "/", "1">>
GT10 == <<"1", "/", "0">>
GT11 == <<"1", "/", "1">>
GT00 == <<"0", "/", "0">>

\* C1: compare_genotypes returns exactly one of '0', '2', '1', '3': '0' iff
\* both tokens are '.', '2' iff exactly one is '.', '1' iff the tokens are
\* equal text and neither is '.', '3' otherwise; with the five listed cases,
\* and '0/1' against '1/0' giving '3'.
ComparePrecedence ==
    ret # NoResult =>
        /\ ret \in Codes
        /\ (ret = <<"0">>) <=> (gt1 = Dot /\ gt2 = Dot)
        /\ (ret = <<"2">>) <=> ((gt1 = Dot) # (gt2 = Dot))
        /\ (ret = <<"1">>) <=> (gt1 = gt2 /\ gt1 # Dot)
        /\ (ret = <<"3">>) <=> (gt1 # gt2 /\ gt1 # Dot /\ gt2 # Dot)
        /\ (gt1 = Dot /\ gt2 = Dot) => ret = <<"0">>
        /\ (gt1 = Dot /\ gt2 = GT01) => ret = <<"2">>
        /\ (gt1 = GT01 /\ gt2 = Dot) => ret = <<"2">>
        /\ (gt1 = GT01 /\ gt2 = GT01) => ret = <<"1">>
        /\ (gt1 = GT01 /\ gt2 = GT11) => ret = <<"3">>
        /\ (gt1 = GT01 /\ gt2 = GT10) => ret = <<"3">>

ComparePrecedenceWitness == gt1 = GT01 /\ gt2 = GT10 /\ ret = <<"3">>

\* C10: compare_genotypes is symmetric: the call with the arguments swapped
\* returns the same code.
CompareSymmetric ==
    (ret # NoResult /\ ret_swapped # NoResult) => ret = ret_swapped

CompareSymmetricWitness ==
    gt1 = GT01 /\ gt2 = Dot /\ ret = <<"2">> /\ ret_swapped = <<"2">>

\* C2: every row written for a data line after a valid header holds, in its
\* last six columns, compare(h1,h2), compare(h1,h3), compare(h1,h4),
\* compare(h2,h3), compare(h2,h4), compare(h3,h4), where h1..h4 are the first
\* colon-delimited subfields of the fields at the sample positions of the
\* header, left to right; genotypes 0/0, 0/1, ., 0/0 give 3, 2, 1, 2, 3, 2.
GenotypeColumns ==
    /\ Len(out) - 1 <= Len(DataUpTo(pos))
    /\ \A k \in 1..(Len(out) - 1) :
          LET i == DataUpTo(pos)[k]
              hd == CHOOSE j \in 1..(i - 1) :
                        HeaderAt(j) /\ \A m \in (j + 1)..(i - 1) : ~HeaderAt(m)
              f == Fields(i)
              h == [j \in 1..SampleCount(hd) |-> Head(split(f[9 + j], ":"))]
              codes == SubSeq(out[k + 1], 6, 11)
          IN  /\ \E j \in 1..(i - 1) : HeaderAt(j)
              /\ Len(h) = 4
              /\ Len(out[k + 1]) = 11
              /\ codes = << compare_genotypes(h[1], h[2]),
                            compare_genotypes(h[1], h[3]),
                            compare_genotypes(h[1], h[4]),
                            compare_genotypes(h[2], h[3]),
                            compare_genotypes(h[2], h[4]),
                            compare_genotypes(h[3], h[4]) >>
              /\ (h = <<GT00, GT01, Dot, GT00>>) =>
                     codes = << <<"3">>, <<"2">>, <<"1">>, <<"2">>, <<"3">>, <<"2">> >>
              /\ (h = <<GT01, GT10, GT01, GT01>>) =>
                     codes = << <<"3">>, <<"1">>, <<"1">>, <<"3">>, <<"3">>, <<"1">> >>

GenotypeColumnsWitness ==
    /\ Len(out) >= 2
    /\ SubSeq(out[Len(out)], 6, 11) =
           << <<"3">>, <<"2">>, <<"1">>, <<"2">>, <<"3">>, <<"2">> >>

BadHeaderAt(i) == HeaderAt(i) /\ SampleCount(i) # 4

DataBeforeHeaderAborts ==
    \A i \in 1..pos :
        (DataAt(i) /\ NoHeaderBefore(i)) =>
            (i = pos /\ status = "failed" /\ out = <<HeaderLiteral>>)

DataBeforeHeaderAbortsWitness ==
    /\ status = "failed"
    /\ error = "TypeError"
    /\ pos >= 1
    /\ DataAt(pos)
    /\ NoHeaderBefore(pos)
    /\ pos < Len(input)

\* the positions a data line must have: 0, 1, 3, 4 and the recorded ones
Required ==
    {0, 1, 3, 4} \cup
    (IF sample_indices = None THEN {}
     ELSE {sample_indices[k] : k \in 1..Len(sample_indices)})

TruncatedNext ==
    /\ Taking
    /\ DataAt(pos + 1)
    /\ \E r \in Required : r >= Len(Fields(pos + 1))

\* C6: a data line with fewer fields than the required positions stops the
\* run: the run fails at that line, no row is written for it, and after the
\* failure no row is written and no line is taken.
TruncatedLineAborts ==
    [][ /\ TruncatedNext => (status' = "failed" /\ out' = out /\ pos' = pos + 1)
        /\ (status = "failed") => UNCHANGED <<pos, out, status>> ]_vars

TruncatedLineAbortsWitness ==
    /\ status = "failed"
    /\ error = "IndexError"
    /\ sample_indices = <<9, 10, 11, 12>>
    /\ pos >= 2
    /\ DataAt(pos)
    /\ Len(Fields(pos)) = 10
    /\ pos < Len(input)

\* the data lines that got a row: all those taken, but the one a run failed at
RowedData ==
    IF status = "failed" /\ pos >= 1 /\ DataAt(pos)
    THEN SubSeq(DataUpTo(pos), 1, Len(DataUpTo(pos)) - 1)
    ELSE DataUpTo(pos)

\* C7: once the run has started the output is the fixed header row, written
\* once and first, followed by exactly one row per data line processed so
\* far, in input order; when the run reaches the end of the input the number
\* of data rows is the number of data lines of the input.
OutputShape ==
    status # "start" =>
        /\ Len(out) >= 1
        /\ out[1] = HeaderLiteral
        /\ \A k \in 2..Len(out) : out[k] # HeaderLiteral
        /\ Len(out) - 1 = Len(RowedData)
        /\ \A k \in 1..Len(RowedData) :
              /\ out[k + 1][1] = Fields(RowedData[k])[1]
              /\ out[k + 1][2] = Fields(RowedData[k])[2]
        /\ (status = "done") =>
              /\ pos = Len(input)
              /\ Len(out) - 1 = Len(DataUpTo(Len(input)))

OutputShapeWitness ==
    /\ status = "done"
    /\ Len(out) = 3
    /\ out[2][2] # out[3][2]

\* C8: a line that is empty after trimming, or that starts with '##', is
\* skipped with no side effect wherever it stands: no row is written, the
\* mapping is unchanged and the run does not fail.
BlankAndMetaSkipped ==
    [][ (Taking /\ (BlankAt(pos + 1) \/ MetaAt(pos + 1))) =>
            /\ out' = out
            /\ sample_indices' = sample_indices
            /\ nChecks' = nChecks
            /\ status' = "running"
            /\ error' = "none"
            /\ pos' = pos + 1 ]_vars

BlankAndMetaSkippedWitness ==
    /\ status = "running"
    /\ pos = 3
    /\ MetaAt(3)
    /\ BlankAt(1)
    /\ sample_indices = <<9, 10, 11, 12>>

\* C9: in every row, REF.Length is the length of field 3, ALT.Length the
\* comma-joined decimal lengths of the comma-separated alleles of field 4 in
\* their order, DELTA.Length the greatest of those lengths minus REF.Length,
\* negative, zero or positive; REF A with ALT A,TT gives 1, 1,2, 1 and REF A
\* with ALT AAA gives 1, 3, 2.
AlleleLengths ==
    /\ Len(out) - 1 <= Len(DataUpTo(pos))
    /\ \A k \in 1..(Len(out) - 1) :
          LET f == Fields(DataUpTo(pos)[k])
              REF == f[4]
              ALT == f[5]
              alleles == split(ALT, ",")
              lens == [a \in 1..Len(alleles) |-> Len(alleles[a])]
              longest == CHOOSE m \in {lens[a] : a \in 1..Len(lens)} :
                             \A a \in 1..Len(lens) : m >= lens[a]
              row == out[k + 1]
          IN  /\ row[3] = str(Len(REF))
              /\ row[4] = join(<<",">>, [a \in 1..Len(lens) |-> str(lens[a])])
              /\ row[5] = str(longest - Len(REF))
              /\ (REF = <<"A">> /\ ALT = <<"A", ",", "T", "T">>) =>
                     (row[3] = <<"1">> /\ row[4] = <<"1", ",", "2">> /\ row[5] = <<"1">>)
              /\ (REF = <<"A">> /\ ALT = <<"A", "A", "A">>) =>
                     (row[3] = <<"1">> /\ row[4] = <<"3">> /\ row[5] = <<"2">>)
              /\ (REF = <<"A", "A", "A">> /\ ALT = <<"A">>) =>
                     (row[3] = <<"3">> /\ row[4] = <<"1">> /\ row[5] = <<"-", "2">>)
              /\ (REF = <<"A", "T">> /\ ALT = <<"C", "G", ",", "T">>) =>
                     (row[3] = <<"2">> /\ row[4] = <<"2", ",", "1">> /\ row[5] = <<"0">>)

AlleleLengthsWitness ==
    /\ Len(out) = 3
    /\ out[2][4] = <<"1", ",", "2">>
    /\ out[2][5] = <<"1">>
    /\ out[3][5] = <<"-", "2">>

====
